---- MODULE Spec2Model ----
(***************************************************************************)
(* Model of run_prompts.py: the stage-3 batch runner that sends every      *)
(* prompt file to the generation service through a thread pool, writes one *)
(* completion file per success and records finished group ids in the       *)
(* sqlite table `done`.                                                    *)
(*                                                                         *)
(* Persistent state (survives a process stop): db, out.                    *)
(* Volatile state (one run of main()): everything else.                    *)
(*                                                                         *)
(* Pool threads are interchangeable, so the pool is the set of jobs its    *)
(* threads are running.  Work items leave the queue in submission order.   *)
(* as_completed may yield the finished futures in any order.  A step of a  *)
(* thread is one blocking or shared operation with the local computation   *)
(* around it: taking an item up to the first request, the answer of a      *)
(* request up to opening the completion file, the end of the write.        *)
(* Group ids are unique in a store and carry neither result marker.        *)
(*                                                                         *)
(* Spec is the general specification.  The scenario specifications run     *)
(* the same actions from other starting points: more files than one flush  *)
(* holds (SpecResume, SpecFault, SpecStore), failures of one class         *)
(* (SpecClass), the steps at the done table split at db_lock (SpecLock),   *)
(* and mark_batch alone on any table and batch (SpecLedger).               *)
(***************************************************************************)
EXTENDS Naturals, Integers, Sequences, FiniteSets, Bags, TLC

\* ------------------------------------------------------------------ bounds
NTasks == 3          \* prompt files in the store of the general specification
MaxRuns == 2         \* runs of main() in one behaviour
MaxCrashes == 1      \* process stops in one behaviour
ResumePending == 1   \* 12- and 13-file scenarios: finished futures the loop
                     \* may have left to yield while the workers go on
MaxArrivals == 1     \* prompt files the builder adds in one behaviour
MaxCopies == 2       \* ledger scenario: times one gid comes in a batch

\* --------------------------------------------------------------- constants
cpu_count == 1       \* os.cpu_count() of the machine
FLUSH_THRESHOLD == 10

Min(a, b) == IF a <= b THEN a ELSE b

MAX_WORKERS == Min(8, (IF cpu_count = 0 THEN 4 ELSE cpu_count) * 2)

PoolSizeOff == MAX_WORKERS + 1
\* ThreadPoolExecutor(max_workers=MAX_WORKERS): the pool's threads
PoolSize == MAX_WORKERS

PHI == "microsoft/phi-3-mini-4k-instruct"
DEEPSEEK == "deepseek-llm"

\* MODEL_MAP.get(model, model): builder name -> Ollama tag
MODEL_MAP(model) ==
    IF model = PHI THEN "phi:latest"
    ELSE IF model = DEEPSEEK THEN "deepseek-llm:latest"
    ELSE model

GIDS == <<"g01", "g02", "g03", "g04", "g05", "g06",
          "g07", "g08", "g09", "g10", "g11", "g12", "g13", "g14",
          "g15", "g16">>

\* A prompt file holds one JSON object; a well-formed one has the three keys.
GoodRec(n, model) == [group_id |-> GIDS[n], model |-> model, prompt |-> "p"]
\* the same descriptor with the "prompt" key missing
BadRec(n, model) == [group_id |-> GIDS[n], model |-> model]

\* stores of the general specification: NTasks files, the first on the phi
\* model and the others on deepseek; all of them well-formed, or the second
\* one malformed
ModelAt(n) == IF n = 1 THEN PHI ELSE DEEPSEEK

Stores ==
    {[n \in 1..NTasks |->
        IF n = bad THEN BadRec(n, ModelAt(n)) ELSE GoodRec(n, ModelAt(n))] :
     bad \in {0, 2}}

\* the crash-resume scenario: threshold + 2 well-formed single-attempt tasks
ResumeTasks == FLUSH_THRESHOLD + 2
ResumeStore == [n \in 1..ResumeTasks |-> GoodRec(n, DEEPSEEK)]

\* the database-fault scenario: one more file, so that a file still waits in
\* the queue when the threshold flush is made
FaultTasks == FLUSH_THRESHOLD + 3
FaultStore == [n \in 1..FaultTasks |-> GoodRec(n, DEEPSEEK)]

\* the store scenario: threshold + 3 well-formed files, the first on the phi
\* model; earlier runs have recorded the last group and have left a
\* completion of the first one, written after an escalation, unrecorded
StoreTasks == FLUSH_THRESHOLD + 3
StoreFiles == [n \in 1..StoreTasks |-> GoodRec(n, ModelAt(n))]

\* the ledger scenario: mark_batch on its own, applied to any batch over
\* three gids and to any table over them
LedgerIds == {GIDS[1], GIDS[2], GIDS[3]}
LedgerBatches ==
    {[g \in {x \in LedgerIds : c[x] > 0} |-> c[g]] :
     c \in [LedgerIds -> 0..MaxCopies]}

\* what one call of the service can do:
\*   "ok"       2xx with a JSON body holding "response"
\*   "timeout"  timeout or connection failure: session.post raises
\*   "http5xx"  5xx status: raise_for_status raises
\*   "http4xx"  4xx status with a diagnostic body: raise_for_status raises
\*   "nokey"    2xx whose JSON body has no "response" key (KeyError)
Transient == {"timeout", "http5xx"}
Permanent == {"http4xx"}
\* the outcomes that reach "except requests.exceptions.RequestException"
RequestExceptions == Transient \cup Permanent
Outcomes == {"ok", "nokey"} \cup RequestExceptions
Healthy == {"ok"}

Absent == [state |-> "absent"]
Partial == [state |-> "partial"]
Record(gid, mdl) == [state |-> "full", group_id |-> gid, model |-> mdl]

Pending == [kind |-> "pending"]
Raised == [kind |-> "exc"]
Skipped(gid) == [kind |-> "skip", gid |-> gid]
Failed(gid) == [kind |-> "fail", gid |-> gid]
Success(gid) == [kind |-> "gid", gid |-> gid]

VARIABLES
    prompt_files,    \* sorted(PROMPTS.glob("*.jsonl")): sequence of descriptors
    arrivals,        \* descriptors put into PROMPTS after that glob
    db_lock,         \* threads inside a "with db_lock" block
    service,         \* outcomes a call of the service can have
    db_fault,        \* TRUE when the state database can fail on a write
    pending_cap,     \* finished futures that may wait for the loop at once
    db,              \* table done: set of gids          (persistent)
    out,             \* OUT_DIR: file -> content          (persistent)
    queue,           \* work queue of the pool: files not yet taken
    busy,            \* pool threads inside process_prompt, one record each:
                     \* the file, "inflight" | "writing", index in attempts
    futures,         \* file -> state of its future
    yielded,         \* files whose future as_completed has yielded
    completed_batch, \* bag of gids appended and not yet flushed
    ctl,             \* "running" | "draining" | "done" | "aborted" | "crashed"
    flush_failed,    \* TRUE once mark_batch has raised in the current run
    run,             \* number of the current run
    crashes,         \* process stops so far
    db_at_start,     \* db when the current run started
    calls,           \* file -> call_ollama calls issued in the current run
    writes           \* file -> completion files written in the current run

vars == <<prompt_files, arrivals, db_lock, service, db_fault, pending_cap,
          db, out, queue, busy, futures, yielded, completed_batch, ctl,
          flush_failed, run, crashes, db_at_start, calls, writes>>

Files == 1..Len(prompt_files)
total == Len(prompt_files)

WellFormed(rec) == {"group_id", "model", "prompt"} \subseteq DOMAIN rec

done_off(gid) == FALSE
\* done(gid): SELECT 1 FROM done WHERE gid=?
done(gid) == gid \in db

attempts_off(model) == <<model, DEEPSEEK>>
\* attempts = [model] (+ fallback for the phi model)
attempts(model) ==
    IF model = PHI THEN <<model, DEEPSEEK>> ELSE <<model>>

\* threads blocked in session.post
InFlight == {r \in busy : r.pc = "inflight"}

Alive == ctl \in {"running", "draining"}

\* ---------------------------------------------------------------- start
StartRun(files) ==
    /\ queue = [n \in 1..Len(files) |-> n]
    /\ busy = {}
    /\ futures = [n \in 1..Len(files) |-> Pending]
    /\ yielded = {}
    /\ completed_batch = EmptyBag
    /\ ctl = "running"
    /\ flush_failed = FALSE
    /\ calls = [n \in 1..Len(files) |-> 0]
    /\ writes = [n \in 1..Len(files) |-> 0]

InitWith(stores, services, fault, cap) ==
    /\ prompt_files \in stores
    /\ arrivals = <<>>
    /\ db_lock = {}
    /\ service = services
    /\ db_fault = fault
    /\ pending_cap = cap
    /\ db = {}
    /\ out = [n \in 1..Len(prompt_files) |-> Absent]
    /\ run = 1
    /\ crashes = 0
    /\ db_at_start = {}
    /\ StartRun(prompt_files)

Init == InitWith(Stores, Outcomes, TRUE, NTasks)

InitResume == InitWith({ResumeStore}, Healthy, FALSE, ResumePending)

InitFault == InitWith({FaultStore}, Healthy, TRUE, ResumePending)

\* the failure-class scenario: NTasks well-formed files, the first on the
\* phi model, and a service whose failures are all of one class
ClassStore == [n \in 1..NTasks |-> GoodRec(n, ModelAt(n))]
ClassServices == {{"ok"} \cup Transient, {"ok"} \cup Permanent}

InitClass ==
    \E s \in ClassServices : InitWith({ClassStore}, s, FALSE, NTasks)

\* the lock scenario: the files of the crash-resume scenario, one run, with
\* the steps that touch the done table split at the lock
InitLock == InitWith({ResumeStore}, Healthy, FALSE, ResumePending)

InitLedger ==
    /\ prompt_files = <<>>
    /\ arrivals = <<>>
    /\ db_lock = {}
    /\ service = Healthy
    /\ db_fault = FALSE
    /\ pending_cap = NTasks
    /\ db \in SUBSET LedgerIds
    /\ out = <<>>
    /\ queue = <<>>
    /\ busy = {}
    /\ futures = <<>>
    /\ yielded = {}
    /\ completed_batch \in LedgerBatches
    /\ ctl = "running"
    /\ flush_failed = FALSE
    /\ run = 1
    /\ crashes = 0
    /\ db_at_start = db
    /\ calls = <<>>
    /\ writes = <<>>

\* OUT_DIR and the done table as the earlier runs of the store scenario
\* have left them
LeftOver ==
    [n \in 1..StoreTasks |->
        IF n \in {1, StoreTasks} THEN Record(GIDS[n], DEEPSEEK) ELSE Absent]

InitStore ==
    /\ prompt_files = StoreFiles
    /\ arrivals = <<>>
    /\ db_lock = {}
    /\ service = Healthy
    /\ db_fault = FALSE
    /\ pending_cap = ResumePending
    /\ db = {GIDS[StoreTasks]}
    /\ out = LeftOver
    /\ run = 1
    /\ crashes = 0
    /\ db_at_start = db
    /\ StartRun(prompt_files)

\* --------------------------------------------------------------- workers
Unyielded == {g \in Files : futures[g].kind # "pending" /\ g \notin yielded}

Job(f, pc, k) == [file |-> f, pc |-> pc, attempt |-> k]

\* process_prompt returns or raises: the future of f is finished and the
\* thread is idle again
Finish(r, f, result) ==
    /\ ctl = "running" => Cardinality(Unyielded) < pending_cap
    /\ futures' = [futures EXCEPT ![f] = result]
    /\ busy' = busy \ {r}

\* an idle pool thread takes the next work item and runs process_prompt up
\* to the first call_ollama
Take ==
    /\ Alive
    /\ Cardinality(busy) < PoolSize
    /\ queue # <<>>
    /\ LET f == Head(queue)
           rec == prompt_files[f]
       IN /\ queue' = Tail(queue)
          /\ IF ~WellFormed(rec)
             THEN Finish(Job(f, "idle", 0), f, Raised) /\ UNCHANGED calls
             ELSE IF done(rec.group_id)
             THEN /\ Finish(Job(f, "idle", 0), f, Skipped(rec.group_id))
                  /\ UNCHANGED calls
             ELSE /\ busy' = busy \cup {Job(f, "inflight", 1)}
                  /\ calls' = [calls EXCEPT ![f] = @ + 1]
                  /\ UNCHANGED futures
    /\ UNCHANGED <<prompt_files, arrivals, db_lock, service, db_fault,
                   pending_cap, db, out, yielded, completed_batch, ctl,
                   flush_failed, run, crashes, db_at_start, writes>>

RespondOk_off(r) ==
    /\ Alive
    /\ r.pc = "inflight"
    /\ "ok" \in service
    /\ LET f == r.file
           more == r.attempt < Len(attempts(prompt_files[f].model))
       IN /\ busy' = (busy \ {r}) \cup {Job(f, "writing", r.attempt)}
                        \cup (IF more THEN {Job(f, "inflight", r.attempt + 1)}
                              ELSE {})
          /\ calls' = [calls EXCEPT ![f] = IF more THEN @ + 1 ELSE @]
          /\ out' = [out EXCEPT ![f] = Partial]
    /\ UNCHANGED <<prompt_files, arrivals, db_lock, service, db_fault,
                   pending_cap, db, queue, futures, yielded, completed_batch,
                   ctl, flush_failed, run, crashes, db_at_start, writes>>
\* the call returns 2xx with a "response": the completion file is opened
\* for writing, which truncates it
RespondOk(r) ==
    /\ Alive
    /\ r.pc = "inflight"
    /\ "ok" \in service
    /\ busy' = (busy \ {r}) \cup {Job(r.file, "writing", r.attempt)}
    /\ out' = [out EXCEPT ![r.file] = Partial]
    /\ UNCHANGED <<prompt_files, arrivals, db_lock, service, db_fault,
                   pending_cap, db, queue, futures, yielded, completed_batch,
                   ctl, flush_failed, run, crashes, db_at_start, calls,
                   writes>>

Raises_off(r, e) ==
    /\ Alive
    /\ r.pc = "inflight"
    /\ e \in service
    /\ LET f == r.file
           rec == prompt_files[f]
       IN IF r.attempt < Len(attempts(rec.model)) /\ e \in Transient
          THEN /\ busy' = (busy \ {r})
                            \cup {Job(f, "inflight", r.attempt + 1)}
               /\ calls' = [calls EXCEPT ![f] = @ + 1]
               /\ UNCHANGED futures
          ELSE Finish(r, f, Failed(rec.group_id)) /\ UNCHANGED calls
    /\ UNCHANGED <<prompt_files, arrivals, db_lock, service, db_fault,
                   pending_cap, db, out, queue, yielded, completed_batch,
                   ctl, flush_failed, run, crashes, db_at_start, writes>>
Raises_touch(r, e) ==
    /\ Alive
    /\ r.pc = "inflight"
    /\ e \in service
    /\ LET f == r.file
           rec == prompt_files[f]
       IN IF r.attempt < Len(attempts(rec.model))
          THEN /\ busy' = (busy \ {r})
                            \cup {Job(f, "inflight", r.attempt + 1)}
               /\ calls' = [calls EXCEPT ![f] = @ + 1]
               /\ UNCHANGED <<futures, out>>
          ELSE /\ Finish(r, f, Failed(rec.group_id))
               /\ out' = [out EXCEPT ![f] = Partial]
               /\ UNCHANGED calls
    /\ UNCHANGED <<prompt_files, arrivals, db_lock, service, db_fault,
                   pending_cap, db, queue, yielded, completed_batch, ctl,
                   flush_failed, run, crashes, db_at_start, writes>>
\* the call raises the RequestException e: next model, or the error line
Raises(r, e) ==
    /\ Alive
    /\ r.pc = "inflight"
    /\ e \in service
    /\ LET f == r.file
           rec == prompt_files[f]
       IN IF r.attempt < Len(attempts(rec.model))
          THEN /\ busy' = (busy \ {r})
                            \cup {Job(f, "inflight", r.attempt + 1)}
               /\ calls' = [calls EXCEPT ![f] = @ + 1]
               /\ UNCHANGED futures
          ELSE Finish(r, f, Failed(rec.group_id)) /\ UNCHANGED calls
    /\ UNCHANGED <<prompt_files, arrivals, db_lock, service, db_fault,
                   pending_cap, db, out, queue, yielded, completed_batch, ctl,
                   flush_failed, run, crashes, db_at_start, writes>>

RespondError(r) == \E e \in RequestExceptions : Raises(r, e)

\* the call returns 2xx without "response": KeyError leaves process_prompt
RespondNoKey(r) ==
    /\ Alive
    /\ r.pc = "inflight"
    /\ "nokey" \in service
    /\ Finish(r, r.file, Raised)
    /\ UNCHANGED <<prompt_files, arrivals, db_lock, service, db_fault,
                   pending_cap, db, out, queue, yielded, completed_batch, ctl,
                   flush_failed, run, crashes, db_at_start, calls, writes>>

\* write_text completes and process_prompt returns gid
WriteDone(r) ==
    /\ Alive
    /\ r.pc = "writing"
    /\ LET f == r.file
           rec == prompt_files[f]
           mdl == attempts(rec.model)[r.attempt]
       IN /\ out' = [out EXCEPT ![f] = Record(rec.group_id, mdl)]
          /\ writes' = [writes EXCEPT ![f] = @ + 1]
          /\ Finish(r, f, Success(rec.group_id))
    /\ UNCHANGED <<prompt_files, arrivals, db_lock, service, db_fault,
                   pending_cap, db, queue, yielded, completed_batch, ctl,
                   flush_failed, run, crashes, db_at_start, calls>>

\* ------------------------------------------------------------ controller
mark_batch_off(gids) == BagToSet(gids)
\* mark_batch(gids): INSERT OR IGNORE each gid, commit
mark_batch(gids) == db \cup BagToSet(gids)

Appended_off(f) ==
    IF futures[f].kind \in {"gid", "fail"}
    THEN completed_batch (+) SetToBag({futures[f].gid})
    ELSE completed_batch
\* mark_batch(completed_batch) on its own, for the ledger scenario
InsertBatch ==
    /\ db' = mark_batch(completed_batch)
    /\ UNCHANGED <<prompt_files, arrivals, db_lock, service, db_fault,
                   pending_cap, out, queue, busy, futures, yielded,
                   completed_batch, ctl, flush_failed, run, crashes,
                   db_at_start, calls, writes>>

\* the success branch of the loop: completed_batch.append(result)
Appended(f) ==
    IF futures[f].kind = "gid"
    THEN completed_batch (+) SetToBag({futures[f].gid})
    ELSE completed_batch

FlushDue_off(f) ==
    \/ BagCardinality(Appended(f)) > FLUSH_THRESHOLD
    \/ Cardinality(yielded) + 1 = total
FlushDue_end(f) == Cardinality(yielded) + 1 = total
\* len(completed_batch) >= 10 or i + 1 == total
FlushDue(f) ==
    \/ BagCardinality(Appended(f)) >= FLUSH_THRESHOLD
    \/ Cardinality(yielded) + 1 = total

Yieldable_off(f) == futures[f].kind # "pending"
\* as_completed yields a finished future that it has not yielded before
Yieldable(f) == futures[f].kind # "pending" /\ f \notin yielded

\* one iteration of the as_completed loop whose fut.result() returns
Handle(f) ==
    /\ ctl = "running"
    /\ Yieldable(f)
    /\ futures[f].kind # "exc"
    /\ yielded' = yielded \cup {f}
    /\ IF FlushDue(f)
       THEN /\ db' = mark_batch(Appended(f))
            /\ completed_batch' = EmptyBag
       ELSE /\ completed_batch' = Appended(f)
            /\ UNCHANGED db
    /\ UNCHANGED <<prompt_files, arrivals, db_lock, service, db_fault,
                   pending_cap, flush_failed, out, queue, busy, futures, ctl,
                   run, crashes, db_at_start, calls, writes>>

\* one iteration in which mark_batch raises (database unavailable): the
\* exception leaves the with block, whose exit waits for the pool
HandleFlushError(f) ==
    /\ ctl = "running"
    /\ db_fault
    /\ Yieldable(f)
    /\ futures[f].kind # "exc"
    /\ FlushDue(f)
    /\ yielded' = yielded \cup {f}
    /\ completed_batch' = Appended(f)
    /\ ctl' = "draining"
    /\ flush_failed' = TRUE
    /\ UNCHANGED <<prompt_files, arrivals, db_lock, service, db_fault,
                   pending_cap, db, out, queue, busy, futures, run, crashes,
                   db_at_start, calls, writes>>

HandleRaise_off(f) ==
    /\ ctl = "running"
    /\ Yieldable(f)
    /\ futures[f].kind \in {"exc", "fail"}
    /\ yielded' = yielded \cup {f}
    /\ ctl' = "draining"
    /\ UNCHANGED <<prompt_files, arrivals, db_lock, service, db_fault,
                   pending_cap, flush_failed, db, out, queue, busy, futures,
                   completed_batch, run, crashes, db_at_start, calls, writes>>
\* one iteration in which fut.result() re-raises the worker's exception
HandleRaise(f) ==
    /\ ctl = "running"
    /\ Yieldable(f)
    /\ futures[f].kind = "exc"
    /\ yielded' = yielded \cup {f}
    /\ ctl' = "draining"
    /\ UNCHANGED <<prompt_files, arrivals, db_lock, service, db_fault,
                   pending_cap, flush_failed, db, out, queue, busy, futures,
                   completed_batch, run, crashes, db_at_start, calls, writes>>

PoolIdle == queue = <<>> /\ busy = {}

\* the loop is over: the with block exits, db.close(), main returns
Return ==
    /\ ctl = "running"
    /\ yielded = Files
    /\ PoolIdle
    /\ ctl' = "done"
    /\ UNCHANGED <<prompt_files, arrivals, db_lock, service, db_fault,
                   pending_cap, flush_failed, db, out, queue, busy, futures,
                   yielded, completed_batch, run, crashes, db_at_start, calls,
                   writes>>

\* shutdown(wait=True) has joined the threads: the exception leaves main
Abort ==
    /\ ctl = "draining"
    /\ PoolIdle
    /\ ctl' = "aborted"
    /\ UNCHANGED <<prompt_files, arrivals, db_lock, service, db_fault,
                   pending_cap, flush_failed, db, out, queue, busy, futures,
                   yielded, completed_batch, run, crashes, db_at_start, calls,
                   writes>>

\* --------------------------------------------------------------- db_lock
\* The actions above make a "with db_lock" block in one step.  The lock
\* scenario splits it: a thread comes to the block, enters it when the
\* lock is free, and leaves it with the statement of the block done.
LockFree_off == TRUE
\* threading.Lock: acquire succeeds when no thread holds the lock
LockFree == db_lock = {}

\* the threads of the process: main, and the pool thread that runs
\* process_prompt for file f
MainThread == <<"main", 0>>
PoolThread(f) == <<"pool", f>>

\* main is inside the block of mark_batch
MainInFlush == MainThread \in db_lock

\* an idle pool thread takes the next work item and runs process_prompt up
\* to the "with db_lock" of done
TakeItem ==
    /\ Alive
    /\ Cardinality(busy) < PoolSize
    /\ queue # <<>>
    /\ LET f == Head(queue)
       IN /\ queue' = Tail(queue)
          /\ IF ~WellFormed(prompt_files[f])
             THEN Finish(Job(f, "idle", 0), f, Raised)
             ELSE busy' = busy \cup {Job(f, "atlock", 0)} /\ UNCHANGED futures
    /\ UNCHANGED <<prompt_files, arrivals, db_lock, service, db_fault,
                   pending_cap, db, out, yielded, completed_batch, ctl,
                   flush_failed, run, crashes, db_at_start, calls, writes>>

\* the thread enters the block of done
AcquireDone(r) ==
    /\ Alive
    /\ r.pc = "atlock"
    /\ LockFree
    /\ db_lock' = db_lock \cup {PoolThread(r.file)}
    /\ busy' = (busy \ {r}) \cup {Job(r.file, "indone", 0)}
    /\ UNCHANGED <<prompt_files, arrivals, service, db_fault, pending_cap,
                   db, out, queue, futures, yielded, completed_batch, ctl,
                   flush_failed, run, crashes, db_at_start, calls, writes>>

ReleaseDone_off(r) ==
    /\ Alive
    /\ r.pc = "indone"
    /\ LET f == r.file
           rec == prompt_files[f]
       IN IF done(rec.group_id)
          THEN /\ Finish(r, f, Skipped(rec.group_id))
               /\ db_lock' = db_lock \ {PoolThread(f)}
               /\ UNCHANGED calls
          ELSE /\ busy' = (busy \ {r}) \cup {Job(f, "inflight", 1)}
               /\ calls' = [calls EXCEPT ![f] = @ + 1]
               /\ UNCHANGED <<futures, db_lock>>
    /\ UNCHANGED <<prompt_files, arrivals, service, db_fault, pending_cap,
                   db, out, queue, yielded, completed_batch, ctl,
                   flush_failed, run, crashes, db_at_start, writes>>
\* the SELECT is made and the thread leaves the block: the skip line, or
\* on to the first call_ollama
ReleaseDone(r) ==
    /\ Alive
    /\ r.pc = "indone"
    /\ db_lock' = db_lock \ {PoolThread(r.file)}
    /\ LET f == r.file
           rec == prompt_files[f]
       IN IF done(rec.group_id)
          THEN Finish(r, f, Skipped(rec.group_id)) /\ UNCHANGED calls
          ELSE /\ busy' = (busy \ {r}) \cup {Job(f, "inflight", 1)}
               /\ calls' = [calls EXCEPT ![f] = @ + 1]
               /\ UNCHANGED futures
    /\ UNCHANGED <<prompt_files, arrivals, service, db_fault, pending_cap,
                   db, out, queue, yielded, completed_batch, ctl,
                   flush_failed, run, crashes, db_at_start, writes>>

\* one iteration of the loop that makes no flush
HandleNoFlush(f) == ~MainInFlush /\ ~FlushDue(f) /\ Handle(f)

\* one iteration of the loop up to the block of mark_batch, which main
\* enters
BeginFlush(f) ==
    /\ ctl = "running"
    /\ ~MainInFlush
    /\ Yieldable(f)
    /\ futures[f].kind # "exc"
    /\ FlushDue(f)
    /\ LockFree
    /\ yielded' = yielded \cup {f}
    /\ completed_batch' = Appended(f)
    /\ db_lock' = db_lock \cup {MainThread}
    /\ UNCHANGED <<prompt_files, arrivals, service, db_fault, pending_cap,
                   db, out, queue, busy, futures, ctl, flush_failed, run,
                   crashes, db_at_start, calls, writes>>

\* the inserts and the commit are made, main leaves the block and clears
\* the batch
EndFlush ==
    /\ MainInFlush
    /\ db' = mark_batch(completed_batch)
    /\ completed_batch' = EmptyBag
    /\ db_lock' = db_lock \ {MainThread}
    /\ UNCHANGED <<prompt_files, arrivals, service, db_fault, pending_cap,
                   out, queue, busy, futures, yielded, ctl, flush_failed,
                   run, crashes, db_at_start, calls, writes>>

\* the loop is over and main is in no block
ReturnUnlocked == ~MainInFlush /\ Return

\* ------------------------------------------------------- process stop
Crash_off ==
    /\ Alive
    /\ crashes < MaxCrashes
    /\ crashes' = crashes + 1
    /\ ctl' = "crashed"
    /\ queue' = <<>>
    /\ busy' = {}
    /\ db_lock' = {}
    /\ db' = {}
    /\ completed_batch' = EmptyBag
    /\ futures' = [n \in Files |-> Pending]
    /\ yielded' = {}
    /\ calls' = [n \in Files |-> 0]
    /\ writes' = [n \in Files |-> 0]
    /\ flush_failed' = FALSE
    /\ UNCHANGED <<prompt_files, arrivals, service, db_fault, pending_cap,
                   out, run, db_at_start>>
\* the process is killed: memory is lost, db and OUT_DIR stay as they are
Crash ==
    /\ Alive
    /\ crashes < MaxCrashes
    /\ crashes' = crashes + 1
    /\ ctl' = "crashed"
    /\ queue' = <<>>
    /\ busy' = {}
    /\ db_lock' = {}
    /\ completed_batch' = EmptyBag
    /\ futures' = [n \in Files |-> Pending]
    /\ yielded' = {}
    /\ calls' = [n \in Files |-> 0]
    /\ writes' = [n \in Files |-> 0]
    /\ flush_failed' = FALSE
    /\ UNCHANGED <<prompt_files, arrivals, service, db_fault, pending_cap,
                   db, out, run, db_at_start>>

\* ------------------------------------------------------------ the store
\* prompt_builder.py names the prompt file of a group after its id
Name(f) == <<prompt_files[f].group_id, ".jsonl">>

Location_off(f) == <<"data/completions", <<"out", ".jsonl">>>>
\* OUT_DIR.joinpath(prompt_file.name): where the completion of f is written
Location(f) == <<"data/completions", Name(f)>>

AddDescriptor_off ==
    /\ Len(arrivals) < MaxArrivals
    /\ Len(prompt_files) + Len(arrivals) < Len(GIDS)
    /\ Alive
    /\ prompt_files' = Append(prompt_files,
                              GoodRec(Len(prompt_files) + 1, DEEPSEEK))
    /\ queue' = Append(queue, Len(prompt_files) + 1)
    /\ futures' = Append(futures, Pending)
    /\ out' = Append(out, Absent)
    /\ calls' = Append(calls, 0)
    /\ writes' = Append(writes, 0)
    /\ UNCHANGED <<arrivals, db_lock, service, db_fault, pending_cap, db,
                   busy, yielded, completed_batch, ctl, flush_failed, run,
                   crashes, db_at_start>>
\* the builder writes the prompt file of a further group into PROMPTS
AddDescriptor ==
    /\ Len(arrivals) < MaxArrivals
    /\ Len(prompt_files) + Len(arrivals) < Len(GIDS)
    /\ arrivals' = Append(arrivals,
                     GoodRec(Len(prompt_files) + Len(arrivals) + 1, DEEPSEEK))
    /\ UNCHANGED <<prompt_files, db_lock, service, db_fault, pending_cap,
                   db, out, queue, busy, futures, yielded, completed_batch,
                   ctl, flush_failed, run, crashes, db_at_start, calls,
                   writes>>

\* sorted(PROMPTS.glob("*.jsonl")) of the next run: the files of this run
\* and the descriptors that have arrived since, whose names sort last
Glob == prompt_files \o arrivals

\* main() is started again
Restart ==
    /\ ctl \in {"done", "aborted", "crashed"}
    /\ run < MaxRuns
    /\ run' = run + 1
    /\ db_at_start' = db
    /\ prompt_files' = Glob
    /\ arrivals' = <<>>
    /\ db_lock' = {}
    /\ out' = [n \in 1..Len(Glob) |-> IF n \in Files THEN out[n] ELSE Absent]
    /\ queue' = [n \in 1..Len(Glob) |-> n]
    /\ busy' = {}
    /\ futures' = [n \in 1..Len(Glob) |-> Pending]
    /\ yielded' = {}
    /\ completed_batch' = EmptyBag
    /\ ctl' = "running"
    /\ calls' = [n \in 1..Len(Glob) |-> 0]
    /\ writes' = [n \in 1..Len(Glob) |-> 0]
    /\ flush_failed' = FALSE
    /\ UNCHANGED <<service, db_fault, pending_cap, db, crashes>>

Next ==
    \/ Take
    \/ \E r \in busy : RespondOk(r)
    \/ \E r \in busy : RespondError(r)
    \/ \E r \in busy : RespondNoKey(r)
    \/ \E r \in busy : WriteDone(r)
    \/ \E f \in Files : Handle(f)
    \/ \E f \in Files : HandleFlushError(f)
    \/ \E f \in Files : HandleRaise(f)
    \/ Return
    \/ Abort
    \/ Crash
    \/ Restart

Spec == Init /\ [][Next]_vars

\* the crash-resume scenario: a healthy service, a reachable database and
\* well-formed files leave only these actions enabled
NextResume ==
    \/ Take
    \/ \E r \in busy : RespondOk(r)
    \/ \E r \in busy : WriteDone(r)
    \/ \E f \in Files : Handle(f)
    \/ Return
    \/ Crash
    \/ Restart

SpecResume == InitResume /\ [][NextResume]_vars

\* the database-fault scenario: one run with a healthy service, well-formed
\* files and a database that can fail on a write
NextFault ==
    \/ Take
    \/ \E r \in busy : RespondOk(r)
    \/ \E r \in busy : WriteDone(r)
    \/ \E f \in Files : Handle(f)
    \/ \E f \in Files : HandleFlushError(f)
    \/ Return
    \/ Abort

SpecFault == InitFault /\ [][NextFault]_vars

\* the store scenario: a healthy service and a reachable database, while
\* the builder may add a prompt file
NextStore ==
    \/ Take
    \/ \E r \in busy : RespondOk(r)
    \/ \E r \in busy : WriteDone(r)
    \/ \E f \in Files : Handle(f)
    \/ Return
    \/ Restart
    \/ AddDescriptor

SpecStore == InitStore /\ [][NextStore]_vars

\* the failure-class scenario: one run, well-formed files, answers that
\* are successes or request exceptions, a reachable database
NextClass ==
    \/ Take
    \/ \E r \in busy : RespondOk(r)
    \/ \E r \in busy : RespondError(r)
    \/ \E r \in busy : WriteDone(r)
    \/ \E f \in Files : Handle(f)
    \/ Return

SpecClass == InitClass /\ [][NextClass]_vars

\* the lock scenario: one run with a healthy service and well-formed files
NextLock ==
    \/ TakeItem
    \/ \E r \in busy : AcquireDone(r)
    \/ \E r \in busy : ReleaseDone(r)
    \/ \E r \in busy : RespondOk(r)
    \/ \E r \in busy : WriteDone(r)
    \/ \E f \in Files : HandleNoFlush(f)
    \/ \E f \in Files : BeginFlush(f)
    \/ EndFlush
    \/ ReturnUnlocked

SpecLock == InitLock /\ [][NextLock]_vars

NextLedger == InsertBatch

SpecLedger == InitLedger /\ [][NextLedger]_vars

\* the liveness scenario: one process that is not stopped from outside and
\* a reachable database; every call of the service ends in one of Outcomes,
\* and the threads of the process keep being scheduled
InitLive == InitWith(Stores, Outcomes, FALSE, NTasks)

NextLive ==
    \/ Take
    \/ \E r \in busy : RespondOk(r)
    \/ \E r \in busy : RespondError(r)
    \/ \E r \in busy : RespondNoKey(r)
    \/ \E r \in busy : WriteDone(r)
    \/ \E f \in Files : Handle(f)
    \/ \E f \in Files : HandleRaise(f)
    \/ Return
    \/ Abort

SpecLive == InitLive /\ [][NextLive]_vars /\ WF_vars(NextLive)

\* ================================================================ claims
Gid(f) == prompt_files[f].group_id
HasRecord(gid) ==
    \E f \in Files : out[f].state = "full" /\ out[f].group_id = gid

\* C1: a file whose group id was in the done table when the run started
\* causes no call of the service in that run.
IdempotentSkip ==
    \A f \in Files : Gid(f) \in db_at_start => calls[f] = 0

\* a later run has skipped a finished group while it calls the service for
\* another one
IdempotentSkipWitness ==
    /\ run > 1
    /\ \E f \in Files : Gid(f) \in db_at_start /\ futures[f].kind = "skip"
    /\ \E f \in Files : Gid(f) \notin db_at_start /\ calls[f] > 0

\* C2: while no process stop has happened, every gid of the done table has
\* a complete completion file; and a step that inserts a gid finds the
\* file of that gid already complete.
LedgerInvariant ==
    [][/\ crashes' = 0 => \A gid \in db' : HasRecord(gid)'
       /\ \A gid \in db' \ db : HasRecord(gid)]_vars

\* a gid written and inserted in this run, next to a failed group
LedgerInvariantWitness ==
    /\ crashes = 0
    /\ \E f \in Files :
          Gid(f) \in db /\ writes[f] = 1 /\ out[f].state = "full"
    /\ \E f \in Files : futures[f].kind = "fail" /\ f \in yielded

\* C3: a returned gid has exactly one completion file written in the run,
\* and when a run that raised nothing but descriptor errors and lost no
\* database write has ended, every returned gid is in the done table.
OnlyDescriptorErrors ==
    \A f \in Files :
        futures[f].kind = "exc" => ~WellFormed(prompt_files[f])

ExactlyOneRecord ==
    /\ \A f \in Files :
          /\ writes[f] <= 1
          /\ futures[f].kind = "gid" => writes[f] = 1 /\ HasRecord(Gid(f))
    /\ (ctl \in {"done", "aborted"} /\ ~flush_failed /\ OnlyDescriptorErrors)
         => \A f \in Files : futures[f].kind = "gid" => Gid(f) \in db

\* C4: the calls in flight never outnumber the pool, which has at most 8
\* threads.
BoundedConcurrency ==
    /\ Cardinality(InFlight) <= MAX_WORKERS
    /\ MAX_WORKERS <= 8

\* every thread of the pool is blocked in a call while a file still waits
BoundedConcurrencyWitness ==
    /\ Cardinality(InFlight) = MAX_WORKERS
    /\ queue # <<>>

\* C5: a phi file is called at most twice and a file on another model at
\* most once; a file that ends with the error line has used up its list
\* (two calls for phi, one otherwise); the completion file names deepseek
\* after an escalation and the declared model otherwise.
FallbackEscalation ==
    \A f \in Files :
        LET m == prompt_files[f].model
            n == calls[f]
        IN /\ n <= 2
           /\ m # PHI => n <= 1
           /\ futures[f].kind = "fail" => n = (IF m = PHI THEN 2 ELSE 1)
           /\ (futures[f].kind = "gid" /\ n = 2)
                => out[f] = Record(Gid(f), DEEPSEEK)
           /\ (futures[f].kind = "gid" /\ n = 1)
                => out[f] = Record(Gid(f), m)

\* a phi file failed twice and a deepseek file failed once
FallbackEscalationWitness ==
    /\ \E f \in Files :
          /\ prompt_files[f].model = PHI
          /\ futures[f].kind = "fail"
          /\ calls[f] = 2
    /\ \E f \in Files :
          /\ prompt_files[f].model = DEEPSEEK
          /\ futures[f].kind = "fail"
          /\ calls[f] = 1

\* C6: with threshold + 2 files and an empty done table, the table stays
\* empty until the threshold-th success is appended and holds at least
\* threshold gids from then on; a run restarted after a stop that left
\* exactly the threshold gids in the table calls the service for none of
\* them and processes and rewrites the two others.
YieldedSuccesses == {f \in yielded : futures[f].kind = "gid"}
Left == {f \in Files : Gid(f) \notin db_at_start}

CrashResume ==
    /\ (run = 1 /\ ctl = "running")
         => /\ (Cardinality(YieldedSuccesses) < FLUSH_THRESHOLD
                 /\ yielded # Files) => db = {}
            /\ Cardinality(YieldedSuccesses) >= FLUSH_THRESHOLD
                 => Cardinality(db) >= FLUSH_THRESHOLD
    /\ (run = 2 /\ crashes = 1 /\ Cardinality(db_at_start) = FLUSH_THRESHOLD)
         => /\ Cardinality(Left) = 2
            /\ \A f \in Files \ Left :
                  /\ calls[f] = 0
                  /\ writes[f] = 0
                  /\ futures[f].kind \in {"pending", "skip"}
            /\ \A f \in Left :
                  /\ futures[f].kind # "skip"
                  /\ futures[f].kind = "gid"
                       => calls[f] = 1 /\ writes[f] = 1
                          /\ out[f] = Record(Gid(f), DEEPSEEK)
            /\ ctl = "done"
                 => \A f \in Left :
                       futures[f].kind = "gid" /\ Gid(f) \in db

\* the restarted run has ended after skipping ten files and rewriting two
CrashResumeWitness ==
    /\ run = 2
    /\ crashes = 1
    /\ Cardinality(db_at_start) = FLUSH_THRESHOLD
    /\ ctl = "done"
    /\ Cardinality({f \in Files : futures[f].kind = "skip"}) = FLUSH_THRESHOLD
    /\ Cardinality({f \in Files : writes[f] = 1}) = 2

\* C7: in a run started after a process stop, a well-formed file whose gid
\* was not in the done table at the start is not skipped; and when that run
\* has ended with every call answered by a success and no database write
\* lost, every well-formed file has a complete completion file and its gid
\* in the done table.
EveryAttemptOk ==
    \A f \in Files :
        WellFormed(prompt_files[f])
            => futures[f].kind \in {"gid", "skip"} /\ calls[f] <= 1

AtLeastOnce ==
    (run > 1 /\ crashes >= 1)
      => /\ \A f \in Files :
              (WellFormed(prompt_files[f]) /\ Gid(f) \notin db_at_start)
                 => futures[f].kind # "skip"
         /\ (ctl \in {"done", "aborted"} /\ ~flush_failed /\ EveryAttemptOk)
              => \A f \in Files :
                    WellFormed(prompt_files[f])
                       => out[f].state = "full" /\ Gid(f) \in db

\* C8: a malformed prompt file causes no call, and the loop that has
\* yielded its future goes on: the batch is not aborted by it.
MalformedSkipped ==
    \A f \in Files :
        ~WellFormed(prompt_files[f])
           => /\ calls[f] = 0
              /\ f \in yielded => ctl \in {"running", "done"}

\* C9: a file that ended with the error line has no completion file
\* written in this run and its gid is not in the done table; the loop is
\* left early only by a raised exception or a failed database write, never
\* by an error line; a run that returns has yielded every future and
\* recorded every returned gid.
TerminalFailure ==
    /\ \A f \in Files :
          futures[f].kind = "fail" => writes[f] = 0 /\ Gid(f) \notin db
    /\ ctl \in {"draining", "aborted"}
         => \/ flush_failed
            \/ \E f \in yielded : futures[f].kind = "exc"
    /\ ctl = "done"
         => /\ yielded = Files
            /\ \A f \in Files : futures[f].kind = "gid" => Gid(f) \in db

\* a run has returned with one file failed and another recorded
TerminalFailureWitness ==
    /\ ctl = "done"
    /\ \E f \in Files : futures[f].kind = "fail" /\ out[f].state = "absent"
    /\ \E f \in Files :
          futures[f].kind = "gid" /\ writes[f] = 1 /\ Gid(f) \in db

\* C10: once mark_batch has raised, the run is being aborted, no further
\* call is issued and no further completion file is written.
LedgerErrorFatal ==
    [][flush_failed
         => /\ ctl \in {"draining", "aborted"}
            /\ calls' = calls
            /\ writes' = writes]_vars

\* C11: at every moment, also during a write and after a process stop,
\* the completion file of a group is absent or holds a complete record.
SinkAtomic ==
    \A f \in Files : out[f].state \in {"absent", "full"}

LedgerIdempotent ==
    /\ ~flush_failed
    /\ db \in {db_at_start, db_at_start \cup BagToSet(completed_batch)}
    /\ BagToSet(completed_batch) \subseteq db
         => mark_batch(completed_batch) = db
    /\ \A g \in db :
          /\ mark_batch(SetToBag({g})) = db
          /\ mark_batch(SetToBag({g}) (+) SetToBag({g})) = db

\* mark_batch has inserted a batch that holds twice a gid the table
\* already had, next to a gid that was new
LedgerIdempotentWitness ==
    /\ db # db_at_start
    /\ \E g \in db_at_start : CopiesIn(g, completed_batch) = 2
    /\ BagToSet(completed_batch) \subseteq db

\* C14: when main has returned or has been left by an exception, no work
\* item is queued, no pool thread is inside process_prompt, and every
\* submitted task has ended with a gid, the error line or the skip line.
ControllerJoins ==
    ctl \in {"done", "aborted"}
      => /\ queue = <<>>
         /\ busy = {}
         /\ \A f \in Files : futures[f].kind \in {"gid", "fail", "skip"}

\* C15: the files of a run are the prompt files found when it started; a
\* file is sent to the service only if its gid was not in the done table
\* at the start, a file is skipped only if its gid was in it then, also
\* after a flush made during the run, and a run that has returned has sent
\* every file whose gid was not in it; a prompt file added during the run
\* is no task of the run and its gid is not recorded.
Dispatched == {f \in Files : calls[f] > 0}
ToDo == {f \in Files : Gid(f) \notin db_at_start}

DispatchFixedAtStart ==
    /\ run = 1 => prompt_files = StoreFiles
    /\ Dispatched \subseteq ToDo
    /\ \A f \in Files : futures[f].kind = "skip" => f \notin ToDo
    /\ ctl = "done" => Dispatched = ToDo
    /\ \A n \in 1..Len(arrivals) :
          /\ arrivals[n].group_id \notin db
          /\ \A f \in Files : Gid(f) # arrivals[n].group_id

\* the first run has returned: it skipped the recorded group, sent all
\* the others, more than one flush of them, and left out the prompt file
\* that was added meanwhile
DispatchFixedAtStartWitness ==
    /\ run = 1
    /\ ctl = "done"
    /\ Len(arrivals) = 1
    /\ futures[StoreTasks].kind = "skip"
    /\ Cardinality(Dispatched) > FLUSH_THRESHOLD
    /\ Dispatched = ToDo
    /\ {Gid(f) : f \in Dispatched} \subseteq db

\* C16: a file has at most one thread working on it, and that thread is in
\* the attempt whose number is the count of calls made for the file, so
\* attempt k+1 is called only when attempt k is over; once a call has
\* succeeded (the thread writes, or the future holds the gid) no further
\* call is made for the file, and the record written names the model of
\* that last call: the declared model after one call, deepseek after two.
JobsOf(f) == {r \in busy : r.file = f}

SequentialAttempts ==
    \A f \in Files :
        LET list == attempts(prompt_files[f].model)
        IN /\ Cardinality(JobsOf(f)) <= 1
           /\ \A r \in JobsOf(f) :
                 /\ futures[f].kind = "pending"
                 /\ r.attempt = calls[f]
                 /\ r.attempt <= Len(list)
           /\ futures[f].kind = "gid"
                => /\ JobsOf(f) = {}
                   /\ writes[f] = 1
                   /\ calls[f] \in 1..Len(list)
                   /\ out[f].state = "full"
                   /\ out[f].model = list[calls[f]]
                   /\ calls[f] = 1 => out[f].model = prompt_files[f].model
                   /\ calls[f] = 2 => out[f].model = DEEPSEEK

\* one file has succeeded in its second attempt and its record names
\* deepseek; another has succeeded in its first and only call
SequentialAttemptsWitness ==
    /\ \E f \in Files :
          /\ prompt_files[f].model = PHI
          /\ futures[f].kind = "gid"
          /\ calls[f] = 2
          /\ out[f] = Record(Gid(f), DEEPSEEK)
    /\ \E f \in Files :
          /\ futures[f].kind = "gid"
          /\ calls[f] = 1
          /\ out[f] = Record(Gid(f), prompt_files[f].model)

\* C17: whether the failures of the service are all transient or all
\* permanent, a file ends with the error line only after a call to every
\* model of its list, and a thread whose file has a second model is in its
\* second attempt as soon as the first call is over without a success.
EscalationAnyClass ==
    \A f \in Files :
        LET list == attempts(prompt_files[f].model)
        IN /\ futures[f].kind = "fail" => calls[f] = Len(list)
           /\ futures[f].kind # "exc"
           /\ (futures[f].kind = "pending" /\ calls[f] > 0)
                => \E r \in busy : r.file = f /\ r.attempt = calls[f]

\* with a service whose failures are all permanent, the phi file has been
\* answered by deepseek after its first call failed, and a file with one
\* model has ended with the error line after its only call
EscalationAnyClassWitness ==
    /\ service \cap Transient = {}
    /\ \E f \in Files :
          /\ Len(attempts(prompt_files[f].model)) = 2
          /\ calls[f] = 2
          /\ futures[f].kind = "gid"
          /\ out[f] = Record(Gid(f), DEEPSEEK)
    /\ \E f \in Files : futures[f].kind = "fail" /\ calls[f] = 1

\* C18: no answer of the service makes the worker of a well-formed file
\* raise: the future of such a file is never finished by an exception, so
\* every call ends as a success or as a failure that the attempt loop
\* handles.
AttemptsClassified ==
    \A f \in Files :
        WellFormed(prompt_files[f]) => futures[f].kind # "exc"

\* C19: at most one thread is inside a "with db_lock" block; a thread that
\* makes the SELECT of done, and main while it makes the inserts of
\* mark_batch, is inside one; and the done table changes only in a step of
\* main inside its block, in which no pool thread moves.
LedgerSingleWriter ==
    [][/\ Cardinality(db_lock') <= 1
       /\ \A r \in busy' : r.pc = "indone" => db_lock' = {PoolThread(r.file)}
       /\ db' # db => db_lock = {MainThread} /\ busy' = busy]_vars

\* main has inserted the first batch and left its block; one pool thread
\* is inside the block of done and the other waits at it
LedgerSingleWriterWitness ==
    /\ Cardinality(db) >= FLUSH_THRESHOLD
    /\ \E r \in busy : r.pc = "indone" /\ db_lock = {PoolThread(r.file)}
    /\ \E r \in busy : r.pc = "atlock"

\* C20: a thread blocked in a call is one of at most MAX_WORKERS jobs of
\* the pool and is in no "with db_lock" block; so while a call is
\* outstanding an idle thread can take the next file, the lock is free or
\* its holder can leave the block at once, and main can handle a finished
\* future, with or without a flush, as soon as the lock is free.
LockHolderCanLeave ==
    \/ LockFree
    \/ MainInFlush /\ ENABLED EndFlush
    \/ \E h \in busy : PoolThread(h.file) \in db_lock /\ ENABLED ReleaseDone(h)

BlockedWorkerIsolated ==
    /\ Cardinality(busy) <= MAX_WORKERS
    /\ \A r \in busy :
          /\ JobsOf(r.file) = {r}
          /\ r.pc \in {"inflight", "writing"} => PoolThread(r.file) \notin db_lock
    /\ InFlight # {}
         => /\ (queue # <<>> /\ Cardinality(busy) < PoolSize)
                 => ENABLED TakeItem
            /\ LockHolderCanLeave
            /\ \A r \in busy :
                  (r.pc = "atlock" /\ LockFree) => ENABLED AcquireDone(r)
            /\ \A f \in Files :
                  (ctl = "running" /\ Yieldable(f) /\ LockFree)
                     => ENABLED HandleNoFlush(f) \/ ENABLED BeginFlush(f)

\* the call for the first file is still outstanding while ten other files
\* have been taken, answered, handled and recorded by a flush
BlockedWorkerIsolatedWitness ==
    /\ \E r \in InFlight : r.file = 1
    /\ Cardinality(yielded) >= FLUSH_THRESHOLD
    /\ Cardinality(db) >= FLUSH_THRESHOLD
    /\ MAX_WORKERS >= 2

\* C21: in a run every file is in exactly one place: once in the work
\* queue, or with exactly one pool thread, or finished; a future the loop
\* has yielded is finished, and a gid the loop has been handed is counted
\* once: it is once in the batch and not yet in the done table, or no
\* longer in the batch.
InQueue(f) == {n \in 1..Len(queue) : queue[n] = f}

LedgerMonotonic == [][db \subseteq db']_vars

\* the run started after a process stop found gids in the done table and
\* has added another one
LedgerMonotonicWitness ==
    /\ run = 2
    /\ crashes = 1
    /\ db_at_start # {}
    /\ db_at_start \subseteq db
    /\ db # db_at_start

\* C23: unless mark_batch raised, the batch holds fewer than FLUSH_THRESHOLD
\* gids; while the loop runs, every gid handed to it is in the batch or in
\* the done table
\* and the batch holds the gids handed over since the last multiple of the
\* threshold; once the loop has handled the last future, and when main
\* has returned, the batch is empty and every gid handed over is in the
\* done table.
FlushPolicy ==
    /\ ~flush_failed => BagCardinality(completed_batch) < FLUSH_THRESHOLD
    /\ ctl = "running"
         => /\ \A f \in YieldedSuccesses :
                  Gid(f) \in db \/ BagIn(Gid(f), completed_batch)
            /\ BagCardinality(completed_batch)
                  = IF yielded = Files THEN 0
                    ELSE Cardinality(YieldedSuccesses) % FLUSH_THRESHOLD
    /\ ((yielded = Files /\ ctl = "running") \/ ctl = "done")
         => /\ completed_batch = EmptyBag
            /\ \A f \in YieldedSuccesses : Gid(f) \in db

\* the first run has flushed the threshold batch and holds the gid of the
\* eleventh success in the batch
FlushPolicyWitness ==
    /\ run = 1
    /\ Cardinality(YieldedSuccesses) = FLUSH_THRESHOLD + 1
    /\ Cardinality(db) = FLUSH_THRESHOLD
    /\ BagCardinality(completed_batch) = 1

\* C24: the run ends, main returning or being left by an exception, and
\* the run that has ended has every submitted task at a gid, the error
\* line or the skip line.
RunOver == ctl \in {"done", "aborted"}

RunTerminates == <>RunOver

RunLiveness ==
    <>(RunOver /\ \A f \in Files : futures[f].kind \in {"gid", "fail", "skip"})

\* C25: a step changes the completion file of at most one task, and only
\* as the thread that runs process_prompt for that task opens it for
\* writing or completes the write; a task whose file was opened for writing
\* ends with its gid unless the process is stopped; so a task that ends
\* with the skip line or the error line has written nothing, and the step
\* that ends it leaves its completion file as it was.
Touched(f) ==
    \/ \E r \in JobsOf(f) : r.pc = "writing"
    \/ futures[f].kind = "gid"

Frame ==
    [][/\ Cardinality({f \in Files : out'[f] # out[f]}) <= 1
       /\ \A f \in Files :
             /\ out'[f] # out[f]
                  => /\ Touched(f)'
                     /\ \E r \in JobsOf(f) : r.pc \in {"inflight", "writing"}
             /\ (Touched(f) /\ run' = run /\ ctl' # "crashed")
                  => Touched(f)'
             /\ (run' = run /\ futures'[f].kind \in {"skip", "fail"})
                  => /\ ~Touched(f)'
                     /\ writes'[f] = 0
                     /\ out'[f] = out[f]]_vars

\* the second run has skipped a task recorded in the done table, whose
\* record is the one the first run wrote, and has ended another, after a
\* call of the service, with the error line and still no completion file
FrameWitness ==
    /\ run = 2
    /\ \E f, g \in Files :
          /\ futures[f].kind = "skip"
          /\ Gid(f) \in db_at_start
          /\ futures[g].kind = "fail"
          /\ out[f].state = "full" /\ out[f].group_id = Gid(f)
          /\ calls[g] > 0
          /\ out[g] = Absent

====
